---- MODULE Spec2Model ----
(***************************************************************************)
(* Product CRUD routes with Cloudinary media cleanup                       *)
(* (routes/productRoutes.js, models/Product.js, routes/uploadRoutes.js).   *)
(*                                                                         *)
(* Strings are sequences of one-character strings, so that split, indexOf, *)
(* slice, join and the regular-expression replaces of the source are       *)
(* computed and not assumed.  JavaScript values are tagged records.        *)
(* A handler is one action; `\E x \in {e} : ...` names the value of e.     *)
(***************************************************************************)
EXTENDS Integers, Sequences, FiniteSets, TLC

VARIABLES
    products,   \* the Product collection: ObjectId number -> document
    blobs,      \* the objects held by the blob store (Cloudinary)
    nextId,     \* number of ObjectIds handed out so far
    uploads,    \* number of objects the blob store has created so far
    now,        \* the clock that stamps created_at / updated_at
    req,        \* the request handled last
    resp,       \* the response sent for it
    calls,      \* the backend and blob-store calls the handler issued, in order
    probe,      \* a direct application of extractPublicId: input and result
    isConnected,\* the flag of db.js
    serverState,\* starting, listening (startServer is through) or exited
    procs,      \* requests in flight that are handled await by await
    readyState, \* mongoose.connection.readyState: 0 disconnected, 1 connected
    replaced    \* media references that a PUT overwrote and no Product
                \* has held since

vars == <<products, blobs, nextId, uploads, now, req, resp, calls, probe,
          isConnected, serverState, procs, readyState, replaced>>

(***************************************************************************)
(* Bounds of the model.                                                    *)
(***************************************************************************)
MaxProducts == 1
MaxUploads == 2
MaxTime == 2
MaxSegments == 3
MaxProcs == 2

(***************************************************************************)
(* JavaScript values.                                                      *)
(***************************************************************************)
Undefined == [t |-> "undefined", s |-> <<>>, n |-> 0]
Null == [t |-> "null", s |-> <<>>, n |-> 0]
Obj == [t |-> "object", s |-> <<>>, n |-> 0]
NaN == [t |-> "nan", s |-> <<>>, n |-> 0]
PosInfinity == [t |-> "inf", s |-> <<>>, n |-> 1]
NegInfinity == [t |-> "inf", s |-> <<>>, n |-> -1]
Str(s) == [t |-> "string", s |-> s, n |-> 0]
Num(n) == [t |-> "number", s |-> <<>>, n |-> n]
\* the outcome of a call that raises
Raised == [t |-> "throw", s |-> <<>>, n |-> 0]

\* typeof v
TypeOf(v) ==
    CASE v.t \in {"number", "nan", "inf"} -> "number"
      [] v.t = "string" -> "string"
      [] v.t = "undefined" -> "undefined"
      [] OTHER -> "object"

\* the truthiness that `!v` and `if (v)` test
Truthy(v) ==
    CASE v.t = "string" -> v.s # <<>>
      [] v.t = "number" -> v.n # 0
      [] v.t = "inf" -> TRUE
      [] v.t = "object" -> TRUE
      [] OTHER -> FALSE

(***************************************************************************)
(* String operations of the extractor.                                     *)
(***************************************************************************)
RECURSIVE SplitFrom(_, _, _)
SplitFrom(s, i, cur) ==
    IF i > Len(s) THEN <<cur>>
    ELSE IF s[i] = "/" THEN <<cur>> \o SplitFrom(s, i + 1, <<>>)
    ELSE SplitFrom(s, i + 1, Append(cur, s[i]))

\* s.split('/')
Split(s) == SplitFrom(s, 1, <<>>)

RECURSIVE Join(_)
\* parts.join('/')
Join(parts) ==
    IF Len(parts) = 0 THEN <<>>
    ELSE IF Len(parts) = 1 THEN parts[1]
    ELSE parts[1] \o <<"/">> \o Join(Tail(parts))

\* parts.indexOf(x), as a 0-based index; -1 when absent
IndexOf(parts, x) ==
    IF \E i \in 1..Len(parts) : parts[i] = x
    THEN (CHOOSE i \in 1..Len(parts) :
            parts[i] = x /\ \A j \in 1..(i - 1) : parts[j] # x) - 1
    ELSE -1

\* parts.slice(from), from a 0-based index
Slice(parts, from) == SubSeq(parts, from + 1, Len(parts))

Digits == {"0", "1", "2", "3", "4", "5", "6", "7", "8", "9"}

\* s.replace(/\.[^/.]+$/, ""): a final dot followed by one or more
\* characters that are neither a slash nor a dot is removed
StripExtension(s) ==
    LET dots == {i \in 1..Len(s) : s[i] = "."}
    IN  IF dots = {} THEN s
        ELSE LET p == CHOOSE i \in dots : \A j \in dots : j <= i
             IN  IF p < Len(s) /\ \A j \in (p + 1)..Len(s) : s[j] # "/"
                 THEN SubSeq(s, 1, p - 1)
                 ELSE s

\* s.replace(/^v\d+\//, ''): a leading v, one or more digits and a slash
StripVersion(s) ==
    LET ends == {i \in 3..Len(s) :
                    /\ s[1] = "v"
                    /\ s[i] = "/"
                    /\ \A j \in 2..(i - 1) : s[j] \in Digits}
    IN  IF ends = {} THEN s
        ELSE LET e == CHOOSE i \in ends : \A j \in ends : i <= j
             IN  SubSeq(s, e + 1, Len(s))

UPLOAD == <<"u", "p", "l", "o", "a", "d">>

\* urlParts.slice(uploadIndex + 1).join('/') without its file extension
PathAfterUpload(urlParts, uploadIndex) ==
    StripExtension(Join(Slice(urlParts, uploadIndex + 1)))

\* the body of the extractor once the URL is split and upload is located
ExtractAt(urlParts, uploadIndex) ==
    IF uploadIndex # -1 /\ uploadIndex + 1 < Len(urlParts)
    THEN Str(PathAfterUpload(urlParts, uploadIndex))
    ELSE Null

ExtractFrom(urlParts) == ExtractAt(urlParts, IndexOf(urlParts, UPLOAD))

\* a variant that answers the path for a URL without an upload segment
extractPublicIdNoNull(url) ==
    IF ~Truthy(url) \/ TypeOf(url) # "string" THEN Null
    ELSE Str(PathAfterUpload(Split(url.s), IndexOf(Split(url.s), UPLOAD)))

\* extractPublicId of the product routes
extractPublicId(url) ==
    IF ~Truthy(url) \/ TypeOf(url) # "string" THEN Null
    ELSE ExtractFrom(Split(url.s))

\* the public id that POST /upload computes from the URL it returns:
\* as above, with the version prefix removed before the extension
UploadIdAt(urlParts, uploadIndex) ==
    IF uploadIndex # -1 /\ uploadIndex + 1 < Len(urlParts)
    THEN StripExtension(StripVersion(Join(Slice(urlParts, uploadIndex + 1))))
    ELSE <<>>

uploadPublicId(cloudinaryUrl) ==
    UploadIdAt(Split(cloudinaryUrl), IndexOf(Split(cloudinaryUrl), UPLOAD))

(***************************************************************************)
(* Numeric coercion and the schema of models/Product.js.                   *)
(***************************************************************************)
DigitVal(c) ==
    CASE c = "0" -> 0 [] c = "1" -> 1 [] c = "2" -> 2 [] c = "3" -> 3
      [] c = "4" -> 4 [] c = "5" -> 5 [] c = "6" -> 6 [] c = "7" -> 7
      [] c = "8" -> 8 [] c = "9" -> 9

INFINITY == <<"I", "n", "f", "i", "n", "i", "t", "y">>

IsPrefix(p, s) == Len(p) <= Len(s) /\ SubSeq(s, 1, Len(p)) = p

RECURSIVE SkipSpaces(_)
SkipSpaces(s) == IF s # <<>> /\ Head(s) = " " THEN SkipSpaces(Tail(s)) ELSE s

RECURSIVE DigitsValue(_, _)
\* the value of the longest run of digits at the head of s, after acc
DigitsValue(s, acc) ==
    IF s # <<>> /\ Head(s) \in Digits
    THEN DigitsValue(Tail(s), 10 * acc + DigitVal(Head(s)))
    ELSE acc

\* the number that starts the unsigned text u: Infinity, or a run of digits
\* (what follows the digits is ignored); NaN without a digit
ParseUnsigned(u, neg) ==
    IF IsPrefix(INFINITY, u) THEN (IF neg THEN NegInfinity ELSE PosInfinity)
    ELSE IF u # <<>> /\ Head(u) \in Digits
    THEN Num(IF neg THEN 0 - DigitsValue(u, 0) ELSE DigitsValue(u, 0))
    ELSE NaN

\* the text t after its leading blanks: an optional sign, then the number
ParseSigned(t) ==
    IF t # <<>> /\ Head(t) \in {"-", "+"}
    THEN ParseUnsigned(Tail(t), Head(t) = "-")
    ELSE ParseUnsigned(t, FALSE)

\* parseFloat(v): the argument is converted to a string first
parseFloat(v) ==
    CASE v.t = "string" -> ParseSigned(SkipSpaces(v.s))
      [] v.t \in {"number", "inf"} -> v
      [] OTHER -> NaN

RECURSIVE TrimLeft(_)
TrimLeft(s) == IF s # <<>> /\ Head(s) = " " THEN TrimLeft(Tail(s)) ELSE s

RECURSIVE TrimRight(_)
TrimRight(s) ==
    IF s # <<>> /\ s[Len(s)] = " " THEN TrimRight(SubSeq(s, 1, Len(s) - 1)) ELSE s

\* the trim setter of a String path
Trim(v) == IF v.t = "string" THEN Str(TrimRight(TrimLeft(v.s))) ELSE v

MaxLenName == 200
MaxLenBrand == 100
MaxLenCategory == 100
MaxLenDescription == 1000
MinPrice == 0

\* validators of a required, trimmed String path with a maxlength
StringPathErrors(path, v, maxlength) ==
    (IF v.t # "string" \/ v.s = <<>> THEN {<<path, "required">>} ELSE {})
    \cup (IF v.t = "string" /\ Len(v.s) > maxlength
          THEN {<<path, "maxlength">>} ELSE {})

\* price_new: type Number (NaN does not cast), required, min 0
PricePathErrors(v) ==
    CASE v.t = "nan" -> {<<"price_new", "cast">>}
      [] v.t \in {"undefined", "null"} -> {<<"price_new", "required">>}
      [] v.t = "number" /\ v.n < MinPrice -> {<<"price_new", "min">>}
      [] v.t = "inf" /\ v.n < 0 -> {<<"price_new", "min">>}
      [] OTHER -> {}

\* description: maxlength 1000
DescriptionErrors(v) ==
    IF v.t = "string" /\ Len(v.s) > MaxLenDescription
    THEN {<<"description", "maxlength">>} ELSE {}

\* the document a Product is constructed from, setters applied
productSchema(d) ==
    [product_name |-> Trim(d.product_name),
     price_new |-> d.price_new,
     brand |-> Trim(d.brand),
     category |-> Trim(d.category),
     description |-> d.description,
     image_url |-> d.image_url,
     video_url |-> d.video_url]

\* the errors that validation of a whole document collects
ValidationErrors(d) ==
    StringPathErrors("product_name", d.product_name, MaxLenName)
    \cup PricePathErrors(d.price_new)
    \cup StringPathErrors("brand", d.brand, MaxLenBrand)
    \cup StringPathErrors("category", d.category, MaxLenCategory)
    \cup DescriptionErrors(d.description)

(***************************************************************************)
(* Texts of the model.                                                     *)
(***************************************************************************)
CHAIR == <<"c", "h", "a", "i", "r">>
BRAND == <<"i", "k", "e", "a">>
CATEGORY == <<"s", "e", "a", "t", "i", "n", "g">>
DESCRIPTION == <<"o", "a", "k">>
\* base of the URLs the blob store hands out (a host and a cloud name, which the environment sets)
CLOUD == <<"/", "/", "h", ".", "c">>
\* params.folder of the Cloudinary storage
FOLDER == <<"i", "n", "t", "e", "r", "i", "o", "r", "-", "d", "e", "s", "i", "g", "n", "-", "p", "r", "o", "d", "u", "c", "t", "s">>
\* a public id that names no object of the store
UNKNOWN_ID == <<"g", "o", "n", "e">>
\* a reference under the static prefix that the disk storage of uploads uses
LOCAL_FILE == <<"/", "u", "p", "l", "o", "a", "d", "s", "/", "a", ".", "p", "n", "g">>
\* a text of n characters
LongText(n) == [i \in 1..n |-> "a"]

DigitChar(n) ==
    CASE n = 0 -> "0" [] n = 1 -> "1" [] n = 2 -> "2" [] n = 3 -> "3"
      [] n = 4 -> "4" [] n = 5 -> "5" [] n = 6 -> "6" [] n = 7 -> "7"
      [] n = 8 -> "8" [] n = 9 -> "9"

(***************************************************************************)
(* The blob store (Cloudinary).                                            *)
(***************************************************************************)
ResourceTypes == {"image", "video"}

\* the object that the k-th upload creates: a fresh public id under the
\* folder, and the delivery URL
\*   <cloud>/<resource type>/upload/v<digits>/<public id>.<format>
NewBlob(k, resourceType, format) ==
    [public_id |-> FOLDER \o <<"/", "f", DigitChar(k)>>,
     resource_type |-> resourceType,
     url |-> CLOUD \o <<"/">> \o
             (IF resourceType = "image" THEN <<"i", "m", "a", "g", "e">> ELSE <<"v", "i", "d", "e", "o">>) \o
             <<"/">> \o UPLOAD \o <<"/", "v", "1", DigitChar(k), "/">> \o
             FOLDER \o <<"/", "f", DigitChar(k), ".">> \o format]

\* what uploader.destroy(publicId, {resource_type}) leaves of the store
Destroyed(bs, publicId, resourceType) ==
    {b \in bs : ~(b.public_id = publicId /\ b.resource_type = resourceType)}

\* the result field of the answer of uploader.destroy
DestroyResult(bs, publicId, resourceType) ==
    IF \E b \in bs : b.public_id = publicId /\ b.resource_type = resourceType
    THEN "ok" ELSE "not found"

(***************************************************************************)
(* Requests, responses and the log of calls.                               *)
(***************************************************************************)
NoId == [valid |-> FALSE, n |-> 0]
ObjectId(k) == [valid |-> TRUE, n |-> k]

\* a variant that accepts every identifier
isValidAlways(id) == TRUE

\* mongoose.Types.ObjectId.isValid
isValid(id) == id.valid

NoBody ==
    [product_name |-> Undefined, price_new |-> Undefined, brand |-> Undefined,
     category |-> Undefined, description |-> Undefined,
     image_url |-> Undefined, video_url |-> Undefined]

NoFile == [present |-> FALSE, mimetype |-> <<"", "">>, tooLarge |-> FALSE]

Req(route, id, body) ==
    [route |-> route, id |-> id, body |-> body,
     publicId |-> <<>>, type |-> "", file |-> NoFile]

\* the answer: error is the fixed head of the text (the message of the
\* caught error, which the handlers append, is left out)
\* keys: which of success, error and data the JSON body carries
Resp(status, success, error) ==
    [status |-> status, success |-> success, error |-> error,
     keys |-> IF success THEN {"success"} ELSE {"success", "error"},
     data |-> <<>>, productId |-> 0,
     filePath |-> <<>>, publicId |-> <<>>, type |-> "", database |-> ""]

\* JSON.stringify of a document in res.json: a number that is not finite
\* is written as null
Json(doc) ==
    [doc EXCEPT !.price_new = IF @.t \in {"inf", "nan"} THEN Null ELSE @]

\* { success: true, ..., data: docs }
WithData(r, docs) ==
    [r EXCEPT !.data = [i \in 1..Len(docs) |-> Json(docs[i])],
              !.keys = @ \cup {"data"}]

\* a variant that answers an absent Product with success and no data
NotFoundAsOk == Resp(200, TRUE, "")

\* res.status(404).json({ success: false, error: "Product not found" })
NotFound == Resp(404, FALSE, "Product not found")

\* res.status(400).json({ success: false, error: "Invalid product ID format" })
InvalidIdentifier == Resp(400, FALSE, "Invalid product ID format")

\* the answer to a body without a required field
MissingFields ==
    Resp(400, FALSE,
         "Missing required fields: product_name, price_new, brand, category")

Call(op, id, publicId, resourceType, result) ==
    [op |-> op, id |-> id, public_id |-> publicId,
     resource_type |-> resourceType, result |-> result]

DbCall(op, id, result) == Call(op, id, <<>>, "", result)

NoProbe == [in |-> Undefined, out |-> Undefined, done |-> FALSE]

(***************************************************************************)
(* Inputs of the requests.                                                 *)
(***************************************************************************)
\* identifiers a client can send: those the store hands out, one more
\* well-formed identifier that it never hands out, and a malformed one
ReqIds == {ObjectId(k) : k \in 1..(MaxProducts + 1)} \cup {NoId}

BaseBody ==
    [NoBody EXCEPT !.product_name = Str(CHAIR), !.price_new = Num(10),
                   !.brand = Str(BRAND), !.category = Str(CATEGORY)]

NameValues ==
    {Undefined, Str(<<>>), Str(CHAIR), Str(<<" ">> \o CHAIR),
     Str(LongText(MaxLenName + 1))}
PriceValues ==
    {Undefined, Num(0), Num(10), Num(-5), Str(<<>>), Str(<<"0">>),
     Str(<<"1", "0">>), Str(<<"-", "5">>), Str(<<"a", "b", "c">>),
     Str(INFINITY), Str(<<"-">> \o INFINITY)}
BrandValues == {Undefined, Str(<<>>), Str(BRAND)}
CategoryValues == {Undefined, Str(<<>>), Str(CATEGORY)}
DescriptionValues ==
    {Undefined, Str(DESCRIPTION), Str(LongText(MaxLenDescription + 1))}
LocalMediaValues == {Undefined, Str(LOCAL_FILE)}

\* media references a client can send: none, or the URL of an object of
\* the blob store
MediaValues(bs) == {Undefined} \cup {Str(b.url) : b \in bs}

\* bodies that vary the media references of a valid body, and the empty body
MediaBodies(bs) ==
    {[BaseBody EXCEPT !.image_url = i, !.video_url = v] :
        i \in MediaValues(bs), v \in MediaValues(bs)}
    \cup {NoBody}

\* bodies that vary one field of a valid body, and the empty body
FieldBodies ==
    {[BaseBody EXCEPT !.product_name = v] : v \in NameValues}
    \cup {[BaseBody EXCEPT !.price_new = v] : v \in PriceValues}
    \cup {[BaseBody EXCEPT !.brand = v] : v \in BrandValues}
    \cup {[BaseBody EXCEPT !.category = v] : v \in CategoryValues}
    \cup {[BaseBody EXCEPT !.description = v] : v \in DescriptionValues}
    \cup {[BaseBody EXCEPT !.image_url = v] : v \in LocalMediaValues}
    \cup {[BaseBody EXCEPT !.video_url = v] : v \in LocalMediaValues}
    \cup {NoBody}

\* a variant without the destructuring default
DefaultKeep(v) == v

\* a destructuring default: `field = ''`
Default(v) == IF v.t = "undefined" THEN Str(<<>>) ELSE v

\* !req.body || Object.keys(req.body).length === 0
BodyMissing(body) == body = NoBody

\* a variant of the required-field test that forgets price_new
FieldsMissingNoPrice(body) ==
    \/ ~Truthy(body.product_name)
    \/ ~Truthy(body.brand)
    \/ ~Truthy(body.category)

\* !product_name || !price_new || !brand || !category
FieldsMissing(body) ==
    \/ ~Truthy(body.product_name)
    \/ ~Truthy(body.price_new)
    \/ ~Truthy(body.brand)
    \/ ~Truthy(body.category)

\* a variant that does not pass the description on
productDataNoDescription(body) ==
    [product_name |-> body.product_name,
     price_new |-> parseFloat(body.price_new),
     brand |-> body.brand,
     category |-> body.category,
     description |-> Str(<<>>),
     image_url |-> Default(body.image_url),
     video_url |-> Default(body.video_url)]

\* productData / updateData of the create and update handlers
productData(body) ==
    [product_name |-> body.product_name,
     price_new |-> parseFloat(body.price_new),
     brand |-> body.brand,
     category |-> body.category,
     description |-> Default(body.description),
     image_url |-> Default(body.image_url),
     video_url |-> Default(body.video_url)]

\* the stored document: the fields, the identifier and the timestamps
Stamped(d, id, created, updated) ==
    [_id |-> id,
     product_name |-> d.product_name, price_new |-> d.price_new,
     brand |-> d.brand, category |-> d.category,
     description |-> d.description,
     image_url |-> d.image_url, video_url |-> d.video_url,
     created_at |-> created, updated_at |-> updated]

(***************************************************************************)
(* GET /products and GET /products/:id                                     *)
(***************************************************************************)
RECURSIVE SortedDesc(_, _)
\* .sort({ created_at: -1 })
SortedDesc(docs, ids) ==
    IF ids = {} THEN <<>>
    ELSE LET m == CHOOSE i \in ids :
                    \A j \in ids : docs[j].created_at <= docs[i].created_at
         IN  <<docs[m]>> \o SortedDesc(docs, ids \ {m})

ListProducts(findOk) ==
    /\ req' = Req("GET /products", NoId, NoBody)
    /\ IF findOk
       THEN /\ calls' = <<DbCall("find", 0, "ok")>>
            /\ resp' = WithData(Resp(200, TRUE, ""),
                                 SortedDesc(products, DOMAIN products))
       ELSE /\ calls' = <<DbCall("find", 0, "error")>>
            /\ resp' = Resp(500, FALSE, "Failed to fetch products")
    /\ UNCHANGED <<products, blobs, nextId, uploads, now, probe,
                 isConnected, serverState, procs, readyState, replaced>>

\* In every handler the outcome of a call that is not issued is left at
\* its default (the call succeeds), so that one request is one step.
GetProduct(id, findOk) ==
    /\ req' = Req("GET /products/:id", id, NoBody)
    /\ IF ~isValid(id)
       THEN /\ findOk
            /\ calls' = <<>>
            /\ resp' = InvalidIdentifier
       ELSE IF ~findOk
       THEN /\ calls' = <<DbCall("findById", id.n, "error")>>
            /\ resp' = Resp(500, FALSE, "Failed to fetch product")
       ELSE IF id.n \notin DOMAIN products
       THEN /\ calls' = <<DbCall("findById", id.n, "null")>>
            /\ resp' = NotFound
       ELSE /\ calls' = <<DbCall("findById", id.n, "ok")>>
            /\ resp' = WithData(Resp(200, TRUE, ""), <<products[id.n]>>)
    /\ UNCHANGED <<products, blobs, nextId, uploads, now, probe,
                 isConnected, serverState, procs, readyState, replaced>>

(***************************************************************************)
(* POST /products                                                          *)
(***************************************************************************)
CreateProduct(body, saveOk) ==
    /\ req' = Req("POST /products", NoId, body)
    /\ IF BodyMissing(body)
       THEN /\ saveOk
            /\ calls' = <<>>
            /\ resp' = Resp(400, FALSE, "Request body is missing.")
            /\ UNCHANGED <<products, nextId, now>>
       ELSE IF FieldsMissing(body)
       THEN /\ saveOk
            /\ calls' = <<>>
            /\ resp' = MissingFields
            /\ UNCHANGED <<products, nextId, now>>
       ELSE \E doc \in {productSchema(productData(body))} :
            \E errors \in {ValidationErrors(doc)} :
            IF errors # {}
            THEN /\ saveOk
                 /\ calls' = <<DbCall("save", 0, "ValidationError")>>
                 /\ resp' = Resp(400, FALSE, "Validation failed")
                 /\ UNCHANGED <<products, nextId, now>>
            ELSE IF ~saveOk
            THEN /\ calls' = <<DbCall("save", 0, "error")>>
                 /\ resp' = Resp(500, FALSE, "Failed to create product")
                 /\ UNCHANGED <<products, nextId, now>>
            ELSE \E id \in {nextId + 1} :
                 \E savedProduct \in {Stamped(doc, id, now, now)} :
                    /\ nextId < MaxProducts
                    /\ now < MaxTime
                    /\ products' = [i \in DOMAIN products \cup {id} |->
                                       IF i = id THEN savedProduct
                                       ELSE products[i]]
                    /\ nextId' = id
                    /\ now' = now + 1
                    /\ calls' = <<DbCall("save", id, "ok")>>
                    /\ resp' = [WithData(Resp(201, TRUE, ""),
                                          <<savedProduct>>) EXCEPT
                                    !.productId = id]
    /\ UNCHANGED <<blobs, uploads, probe,
                 isConnected, serverState, procs, readyState>>

(***************************************************************************)
(* PUT /products/:id                                                       *)
(***************************************************************************)
WritablePaths ==
    {"product_name", "price_new", "brand", "category",
     "description", "image_url", "video_url"}

\* the paths that findByIdAndUpdate sets: keys whose value is undefined are
\* dropped from the update
SetPaths(u) == {f \in WritablePaths : u[f].t # "undefined"}

\* casting the update: a NaN does not cast to Number (CastError)
UpdateCastFails(u) == u.price_new.t = "nan"

\* runValidators: the validators of the paths that are set
UpdateErrors(u) ==
    (IF u.product_name.t # "undefined"
     THEN StringPathErrors("product_name", u.product_name, MaxLenName)
     ELSE {})
    \cup PricePathErrors(u.price_new)
    \cup (IF u.brand.t # "undefined"
          THEN StringPathErrors("brand", u.brand, MaxLenBrand) ELSE {})
    \cup (IF u.category.t # "undefined"
          THEN StringPathErrors("category", u.category, MaxLenCategory)
          ELSE {})
    \cup DescriptionErrors(u.description)

\* a variant that leaves updated_at as it was
UpdatedStale(old, u, at) ==
    [f \in DOMAIN old |->
        IF f \in WritablePaths /\ u[f].t # "undefined" THEN u[f]
        ELSE old[f]]

\* the stored document after the update, updated_at refreshed
Updated(old, u, at) ==
    [f \in DOMAIN old |->
        IF f = "updated_at" THEN at
        ELSE IF f \in WritablePaths /\ u[f].t # "undefined" THEN u[f]
        ELSE old[f]]

UpdateProduct(id, body, findOk, updateOk) ==
    /\ req' = Req("PUT /products/:id", id, body)
    /\ IF ~isValid(id)
       THEN /\ findOk /\ updateOk
            /\ calls' = <<>>
            /\ resp' = InvalidIdentifier
            /\ UNCHANGED <<products, now>>
       ELSE IF ~findOk
       THEN /\ updateOk
            /\ calls' = <<DbCall("findById", id.n, "error")>>
            /\ resp' = Resp(500, FALSE, "Failed to update product")
            /\ UNCHANGED <<products, now>>
       ELSE IF id.n \notin DOMAIN products
       THEN /\ updateOk
            /\ calls' = <<DbCall("findById", id.n, "null")>>
            /\ resp' = NotFound
            /\ UNCHANGED <<products, now>>
       ELSE \E updateData \in {productSchema(productData(body))} :
            \E errors \in {UpdateErrors(updateData)} :
            IF UpdateCastFails(updateData)
            THEN /\ updateOk
                 /\ calls' = <<DbCall("findById", id.n, "ok"),
                               DbCall("findByIdAndUpdate", id.n, "CastError")>>
                 /\ resp' = Resp(500, FALSE, "Failed to update product")
                 /\ UNCHANGED <<products, now>>
            ELSE IF errors # {}
            THEN /\ updateOk
                 /\ calls' = <<DbCall("findById", id.n, "ok"),
                               DbCall("findByIdAndUpdate", id.n,
                                      "ValidationError")>>
                 /\ resp' = Resp(400, FALSE, "Validation failed")
                 /\ UNCHANGED <<products, now>>
            ELSE IF ~updateOk
            THEN /\ calls' = <<DbCall("findById", id.n, "ok"),
                               DbCall("findByIdAndUpdate", id.n, "error")>>
                 /\ resp' = Resp(500, FALSE, "Failed to update product")
                 /\ UNCHANGED <<products, now>>
            ELSE \E updatedProduct \in {Updated(products[id.n], updateData, now)} :
                    /\ now < MaxTime
                    /\ products' = [products EXCEPT ![id.n] = updatedProduct]
                    /\ now' = now + 1
                    /\ calls' = <<DbCall("findById", id.n, "ok"),
                                  DbCall("findByIdAndUpdate", id.n, "ok")>>
                    /\ resp' = WithData(Resp(200, TRUE, ""),
                                         <<updatedProduct>>)
    /\ UNCHANGED <<blobs, nextId, uploads, probe,
                 isConnected, serverState, procs, readyState>>

(***************************************************************************)
(* DELETE /products/:id, with the Cloudinary cleanup                       *)
(***************************************************************************)
DestroyOutcomes == {"done", "throw"}

\* `if (url) { publicId = extractPublicId(url); ... }`
CleanupId(url) == IF Truthy(url) THEN extractPublicId(url) ELSE Null

\* a variant without the try/catch around destroy
CleanupNoCatch(bs, publicId, resourceType, outcome) ==
    IF ~Truthy(publicId)
    THEN [blobs |-> bs, calls |-> <<>>, raised |-> FALSE]
    ELSE IF outcome = "throw"
    THEN [blobs |-> bs, raised |-> TRUE,
          calls |-> <<Call("destroy", 0, publicId.s, resourceType, "throw")>>]
    ELSE [blobs |-> Destroyed(bs, publicId.s, resourceType), raised |-> FALSE,
          calls |-> <<Call("destroy", 0, publicId.s, resourceType,
                           DestroyResult(bs, publicId.s, resourceType))>>]

\* a variant that passes no resource type, so the blob store takes image
CleanupUntagged(bs, publicId, resourceType, outcome) ==
    IF ~Truthy(publicId)
    THEN [blobs |-> bs, calls |-> <<>>, raised |-> FALSE]
    ELSE IF outcome = "throw"
    THEN [blobs |-> bs, raised |-> FALSE,
          calls |-> <<Call("destroy", 0, publicId.s, "image", "throw")>>]
    ELSE [blobs |-> Destroyed(bs, publicId.s, "image"), raised |-> FALSE,
          calls |-> <<Call("destroy", 0, publicId.s, "image",
                           DestroyResult(bs, publicId.s, "image"))>>]

\* a variant whose destroy empties the store, as a delete by prefix would
CleanupByPrefix(bs, publicId, resourceType, outcome) ==
    IF ~Truthy(publicId)
    THEN [blobs |-> bs, calls |-> <<>>, raised |-> FALSE]
    ELSE IF outcome = "throw"
    THEN [blobs |-> bs, raised |-> FALSE,
          calls |-> <<Call("destroy", 0, publicId.s, resourceType, "throw")>>]
    ELSE [blobs |-> {}, raised |-> FALSE,
          calls |-> <<Call("destroy", 0, publicId.s, resourceType,
                           DestroyResult(bs, publicId.s, resourceType))>>]

\* one cleanup block: `if (publicId) { try { await destroy(publicId, ...) }
\* catch { log } }`: the store and the calls afterwards, and whether an
\* exception leaves the block (it never does: the catch logs and goes on).
\* The image block passes no options, so the blob store takes type image.
Cleanup(bs, publicId, resourceType, outcome) ==
    IF ~Truthy(publicId)
    THEN [blobs |-> bs, calls |-> <<>>, raised |-> FALSE]
    ELSE IF outcome = "throw"
    THEN [blobs |-> bs, raised |-> FALSE,
          calls |-> <<Call("destroy", 0, publicId.s, resourceType, "throw")>>]
    ELSE [blobs |-> Destroyed(bs, publicId.s, resourceType), raised |-> FALSE,
          calls |-> <<Call("destroy", 0, publicId.s, resourceType,
                           DestroyResult(bs, publicId.s, resourceType))>>]

DeleteProduct(id, findOk, imageOutcome, videoOutcome, deleteOk) ==
    /\ req' = Req("DELETE /products/:id", id, NoBody)
    /\ IF ~isValid(id)
       THEN /\ findOk /\ deleteOk
            /\ imageOutcome = "done" /\ videoOutcome = "done"
            /\ calls' = <<>>
            /\ resp' = InvalidIdentifier
            /\ UNCHANGED <<products, blobs>>
       ELSE IF ~findOk
       THEN /\ deleteOk /\ imageOutcome = "done" /\ videoOutcome = "done"
            /\ calls' = <<DbCall("findById", id.n, "error")>>
            /\ resp' = Resp(500, FALSE, "Failed to delete product")
            /\ UNCHANGED <<products, blobs>>
       ELSE IF id.n \notin DOMAIN products
       THEN /\ deleteOk /\ imageOutcome = "done" /\ videoOutcome = "done"
            /\ calls' = <<DbCall("findById", id.n, "null")>>
            /\ resp' = NotFound
            /\ UNCHANGED <<products, blobs>>
       ELSE \E existingProduct \in {products[id.n]} :
            \E imagePublicId \in {CleanupId(existingProduct.image_url)} :
            \E image \in {Cleanup(blobs, imagePublicId, "image", imageOutcome)} :
            IF image.raised
            THEN \* the outer catch: the exception ends the handler
                 /\ deleteOk /\ videoOutcome = "done"
                 /\ blobs' = image.blobs
                 /\ products' = products
                 /\ calls' = <<DbCall("findById", id.n, "ok")>> \o image.calls
                 /\ resp' = Resp(500, FALSE, "Failed to delete product")
            ELSE
            \E videoPublicId \in {CleanupId(existingProduct.video_url)} :
            \E video \in {Cleanup(image.blobs, videoPublicId, "video",
                                  videoOutcome)} :
            \E cleanupCalls \in {<<DbCall("findById", id.n, "ok")>>
                                 \o image.calls \o video.calls} :
            /\ ~Truthy(imagePublicId) => imageOutcome = "done"
            /\ ~Truthy(videoPublicId) => videoOutcome = "done"
            /\ blobs' = video.blobs
            /\ IF video.raised
               THEN /\ deleteOk
                    /\ products' = products
                    /\ calls' = cleanupCalls
                    /\ resp' = Resp(500, FALSE, "Failed to delete product")
               ELSE IF deleteOk
               THEN /\ products' = [i \in DOMAIN products \ {id.n} |->
                                       products[i]]
                    /\ calls' = Append(cleanupCalls,
                                       DbCall("findByIdAndDelete", id.n, "ok"))
                    /\ resp' = Resp(200, TRUE, "")
               ELSE /\ products' = products
                    /\ calls' = Append(cleanupCalls,
                                       DbCall("findByIdAndDelete", id.n, "error"))
                    /\ resp' = Resp(500, FALSE, "Failed to delete product")
    /\ UNCHANGED <<nextId, uploads, now, probe,
                 isConnected, serverState, procs, readyState, replaced>>

(***************************************************************************)
(* POST /upload and DELETE /upload/:publicId (Cloudinary storage)          *)
(***************************************************************************)
\* allowedTypes of the file filter, as <<type, subtype>>
allowedTypes ==
    {<<"image", "jpeg">>, <<"image", "jpg">>, <<"image", "png">>,
     <<"image", "gif">>, <<"video", "mp4">>, <<"video", "mov">>,
     <<"video", "avi">>, <<"video", "webm">>, <<"video", "x-matroska">>}

\* the media types of the files a client sends
MimeTypes == {<<"image", "png">>, <<"video", "mp4">>, <<"application", "pdf">>}

Files ==
    {NoFile} \cup
    {[present |-> TRUE, mimetype |-> m, tooLarge |-> l] :
        m \in MimeTypes, l \in BOOLEAN}

\* the format the blob store gives the stored object
Format(mimetype) == IF mimetype[2] = "png" THEN <<"p", "n", "g">> ELSE <<"m", "p", "4">>

UploadFile(file, cloudOk) ==
    /\ req' = [Req("POST /upload", NoId, NoBody) EXCEPT !.file = file]
    /\ IF ~file.present
       THEN /\ cloudOk
            /\ calls' = <<>>
            /\ resp' = Resp(400, FALSE,
                            "No file uploaded or file type not supported")
            /\ UNCHANGED <<blobs, uploads>>
       ELSE IF file.mimetype \notin allowedTypes
       THEN \* the filter's Error reaches the error middleware, which
            \* answers 500 to what is no MulterError
            /\ cloudOk
            /\ calls' = <<>>
            /\ resp' = Resp(500, FALSE,
                            "Only images (JPEG, PNG, GIF) and videos (MP4, MOV, AVI, WEBM) are allowed")
            /\ UNCHANGED <<blobs, uploads>>
       ELSE IF file.tooLarge
       THEN /\ cloudOk
            /\ calls' = <<Call("upload", 0, <<>>, "auto", "aborted")>>
            /\ resp' = Resp(400, FALSE, "File too large. Maximum size is 50MB")
            /\ UNCHANGED <<blobs, uploads>>
       ELSE IF ~cloudOk
       THEN /\ calls' = <<Call("upload", 0, <<>>, "auto", "throw")>>
            /\ resp' = Resp(500, FALSE, "Upload failed")
            /\ UNCHANGED <<blobs, uploads>>
       ELSE \E resourceType \in {IF file.mimetype[1] = "video"
                                 THEN "video" ELSE "image"} :
            \E blob \in {NewBlob(uploads + 1, resourceType,
                                 Format(file.mimetype))} :
                /\ uploads < MaxUploads
                /\ blobs' = blobs \cup {blob}
                /\ uploads' = uploads + 1
                /\ calls' = <<Call("upload", 0, blob.public_id, "auto", "ok")>>
                /\ resp' = [Resp(200, TRUE, "") EXCEPT
                                !.filePath = blob.url,
                                !.publicId = uploadPublicId(blob.url),
                                !.type = resourceType]
    /\ UNCHANGED <<products, nextId, now, probe,
                 isConnected, serverState, procs, readyState, replaced>>

PublicIds(bs) == {b.public_id : b \in bs} \cup {UNKNOWN_ID}

DeleteUpload(publicId, type, outcome) ==
    \E resourceType \in {IF type # "" THEN type ELSE "image"} :
    /\ req' = [Req("DELETE /upload/:publicId", NoId, NoBody) EXCEPT
                   !.publicId = publicId, !.type = type]
    /\ IF outcome = "throw"
       THEN /\ calls' = <<Call("destroy", 0, publicId, resourceType, "throw")>>
            /\ resp' = Resp(500, FALSE, "")
            /\ UNCHANGED blobs
       ELSE IF outcome = "refused"
       THEN /\ calls' = <<Call("destroy", 0, publicId, resourceType, "error")>>
            \* error: result.result || "Failed to delete file"
            /\ resp' = Resp(400, FALSE, "error")
            /\ UNCHANGED blobs
       ELSE /\ calls' = <<Call("destroy", 0, publicId, resourceType,
                               DestroyResult(blobs, publicId, resourceType))>>
            /\ resp' = Resp(200, TRUE, "")
            /\ blobs' = Destroyed(blobs, publicId, resourceType)
    /\ UNCHANGED <<products, nextId, uploads, now, probe,
                 isConnected, serverState, procs, readyState, replaced>>

(***************************************************************************)
(* The service.                                                            *)
(***************************************************************************)
Init ==
    /\ products = <<>>
    /\ blobs = {}
    /\ nextId = 0
    /\ uploads = 0
    /\ now = 0
    /\ req = Req("", NoId, NoBody)
    /\ resp = Resp(0, FALSE, "")
    /\ calls = <<>>
    /\ probe = NoProbe
    /\ isConnected = TRUE
    /\ serverState = "listening"
    /\ procs = <<>>
    /\ readyState = 1
    /\ replaced = {}

List == \E findOk \in BOOLEAN : ListProducts(findOk)

Get == \E id \in ReqIds, findOk \in BOOLEAN : GetProduct(id, findOk)

Create ==
    \E body \in MediaBodies(blobs), saveOk \in BOOLEAN :
        CreateProduct(body, saveOk) /\ UNCHANGED replaced

Update ==
    \E id \in ReqIds, body \in MediaBodies(blobs), findOk \in BOOLEAN,
       updateOk \in BOOLEAN :
        UpdateProduct(id, body, findOk, updateOk) /\ UNCHANGED replaced

Delete ==
    \E id \in ReqIds, findOk \in BOOLEAN, imageOutcome \in DestroyOutcomes,
       videoOutcome \in DestroyOutcomes, deleteOk \in BOOLEAN :
        DeleteProduct(id, findOk, imageOutcome, videoOutcome, deleteOk)

Upload == \E file \in Files, cloudOk \in BOOLEAN : UploadFile(file, cloudOk)

Remove ==
    \E publicId \in PublicIds(blobs), type \in {"", "video"},
       outcome \in {"done", "refused", "throw"} :
        DeleteUpload(publicId, type, outcome)

\* the whole service, with requests that vary the media of a Product
Next == List \/ Get \/ Create \/ Update \/ Delete \/ Upload \/ Remove

Spec == Init /\ [][Next]_vars

CreateFields ==
    \E body \in FieldBodies, saveOk \in BOOLEAN :
        CreateProduct(body, saveOk) /\ UNCHANGED replaced

UpdateFields ==
    \E id \in ReqIds, body \in FieldBodies, findOk \in BOOLEAN,
       updateOk \in BOOLEAN :
        UpdateProduct(id, body, findOk, updateOk) /\ UNCHANGED replaced

\* the product routes, with requests that vary the fields of a Product
FieldNext == List \/ Get \/ CreateFields \/ UpdateFields \/ Delete

FieldSpec == Init /\ [][FieldNext]_vars

(***************************************************************************)
(* The extractor on its own: its inputs, and Products that carry them.     *)
(***************************************************************************)
\* the unit cases of the extractor
URL_VERSIONED == <<"h", "t", "t", "p", "s", ":", "/", "/", "h", "o", "s", "t", "/", "x", "/", "u", "p", "l", "o", "a", "d", "/", "v", "1", "2", "3", "/", "f", "o", "l", "d", "e", "r", "/", "f", "i", "l", "e", ".", "p", "n", "g">>
URL_PLAIN == <<"h", "t", "t", "p", "s", ":", "/", "/", "h", "o", "s", "t", "/", "x", "/", "u", "p", "l", "o", "a", "d", "/", "f", "o", "l", "d", "e", "r", "/", "f", "i", "l", "e", ".", "j", "p", "g">>
NO_UPLOAD_SEGMENT == <<"n", "o", "-", "u", "p", "l", "o", "a", "d", "-", "s", "e", "g", "m", "e", "n", "t">>
FOLDER_FILE == <<"f", "o", "l", "d", "e", "r", "/", "f", "i", "l", "e">>

Segments == {UPLOAD, <<"v", "1", "2", "3">>, <<"f", "o", "l", "d", "e", "r">>, <<"f", "i", "l", "e", ".", "p", "n", "g">>, <<>>}

\* every text of one to MaxSegments segments, the unit cases, and values
\* that are no text or an empty one
ExtractInputs ==
    {Str(Join(p)) : p \in UNION {[1..k -> Segments] : k \in 1..MaxSegments}}
    \cup {Str(URL_VERSIONED), Str(URL_PLAIN), Str(NO_UPLOAD_SEGMENT)}
    \cup {Undefined, Null, Num(0), Num(42), Obj, Str(<<>>)}

ExtractInit ==
    /\ products = <<>>
    /\ blobs = {}
    /\ nextId = 0
    /\ uploads = 0
    /\ now = 0
    /\ req = Req("", NoId, NoBody)
    /\ resp = Resp(0, FALSE, "")
    /\ calls = <<>>
    /\ isConnected = TRUE
    /\ serverState = "listening"
    /\ procs = <<>>
    /\ readyState = 1
    /\ replaced = {}
    /\ probe \in {[in |-> v, out |-> Undefined, done |-> FALSE] :
                    v \in ExtractInputs}

\* extractPublicId applied to the input
ExtractProbe ==
    /\ ~probe.done
    /\ probe' = [in |-> probe.in, out |-> extractPublicId(probe.in),
                 done |-> TRUE]
    /\ UNCHANGED <<products, blobs, nextId, uploads, now, req, resp, calls,
                   isConnected, serverState, procs, readyState, replaced>>

\* POST /products with the input as both media references (a JSON body
\* carries a text or null; an absent key is undefined)
CreateProbed ==
    /\ probe.in.t \in {"string", "null", "undefined"}
    /\ \E saveOk \in BOOLEAN :
        CreateProduct([BaseBody EXCEPT !.image_url = probe.in,
                                       !.video_url = probe.in], saveOk)
    /\ UNCHANGED replaced

ExtractNext == ExtractProbe \/ CreateProbed \/ Delete

ExtractSpec == ExtractInit /\ [][ExtractNext]_vars

(***************************************************************************)
(* Properties.                                                             *)
(***************************************************************************)
IdRoutes == {"GET /products/:id", "PUT /products/:id", "DELETE /products/:id"}

IsDestroy(c) == c.op = "destroy"
Destroys(cs) == SelectSeq(cs, IsDestroy)
LastCall(cs) == cs[Len(cs)]

\* the step is a DELETE /products/:id that found the Product id
DeletesFound(id) ==
    /\ req'.route = "DELETE /products/:id"
    /\ req'.id = id
    /\ id.valid
    /\ id.n \in DOMAIN products
    /\ calls' # <<>>
    /\ calls'[1] = DbCall("findById", id.n, "ok")

\* C1: the result of DELETE /products/:id for an existing Product depends
\* only on the record removal: whatever the blob-delete calls do, the
\* removal is issued; when it succeeds the record is gone and the answer
\* is 200 success, when it fails the record is still there and the answer
\* is a 500 failure.
C1_DeleteResultIsRecordRemoval ==
    [][\A id \in ReqIds :
        DeletesFound(id) =>
            /\ LastCall(calls').op = "findByIdAndDelete"
            /\ LastCall(calls').result \in {"ok", "error"}
            /\ LastCall(calls').result = "ok" =>
                 /\ id.n \notin DOMAIN products'
                 /\ resp'.status = 200 /\ resp'.success
            /\ LastCall(calls').result = "error" =>
                 /\ products' = products
                 /\ resp'.status = 500 /\ ~resp'.success]_vars

\* C1 witness: a deletion answered 200 although a blob-delete call threw
C1_Witness ==
    /\ req.route = "DELETE /products/:id"
    /\ resp.status = 200
    /\ req.id.n \notin DOMAIN products
    /\ \E i \in 1..Len(calls) : IsDestroy(calls[i]) /\ calls[i].result = "throw"

\* C2: after a DELETE /products/:id that succeeded, for a Product whose
\* image_url / video_url are URLs the upload returned, with no blob-store
\* call refused, the objects those URLs referenced are no longer in the
\* blob store.
C2_MediaDoesNotOutliveProduct ==
    [][\A id \in ReqIds :
        (/\ DeletesFound(id)
         /\ resp'.status = 200
         /\ \A i \in 1..Len(calls') : calls'[i].result # "throw")
        => \A b \in blobs' :
            /\ ~(b.resource_type = "image"
                 /\ Str(b.url) = products[id.n].image_url)
            /\ ~(b.resource_type = "video"
                 /\ Str(b.url) = products[id.n].video_url)]_vars

\* C3: every stored Product with a non-empty image_url or video_url
\* references an object that exists in the blob store.
C3_MediaReferencesExist ==
    \A i \in DOMAIN products :
        /\ products[i].image_url # Str(<<>>) =>
             \E b \in blobs : Str(b.url) = products[i].image_url
        /\ products[i].video_url # Str(<<>>) =>
             \E b \in blobs : Str(b.url) = products[i].video_url

\* C4: GET, PUT and DELETE /products/:id with a malformed id answer 400
\* without a call to the storage backend and without a call to the blob
\* store.
C4_MalformedIdNoCall ==
    (req.route \in IdRoutes /\ ~req.id.valid)
        => (resp.status = 400 /\ ~resp.success /\ calls = <<>>)

\* C4 witness: a DELETE with a malformed id was answered 400 while a
\* Product with media was stored
C4_Witness ==
    /\ req.route = "DELETE /products/:id" /\ ~req.id.valid
    /\ resp.status = 400
    /\ \E i \in DOMAIN products : Truthy(products[i].image_url)

\* C5: GET, PUT and DELETE /products/:id with a well-formed id that matches
\* no record (the storage backend answering the lookup) answer 404 and
\* change nothing: the stored Products and the blob store are as before,
\* and the lookup is the only call.
C5_AbsentIdNoEffect ==
    [][\A id \in ReqIds :
        (/\ req'.route \in IdRoutes
         /\ req'.id = id
         /\ id.valid
         /\ id.n \notin DOMAIN products
         /\ \A i \in 1..Len(calls') : calls'[i].result # "error")
        => /\ resp'.status = 404 /\ ~resp'.success
           /\ products' = products
           /\ blobs' = blobs
           /\ calls' = <<DbCall("findById", id.n, "null")>>]_vars

\* C5 witness: a DELETE of an absent Product was answered 404 while the
\* blob store held objects
C5_Witness ==
    /\ req.route = "DELETE /products/:id" /\ req.id.valid
    /\ resp.status = 404
    /\ blobs # {}

\* the blob-delete calls of a log, as <<identifier, resource type>>
DestroyTags(cs) ==
    [i \in 1..Len(Destroys(cs)) |->
        <<Destroys(cs)[i].public_id, Destroys(cs)[i].resource_type>>]

\* the blob-delete call due for a media reference: one when the reference
\* is non-empty and the extractor yields an identifier
DueFor(url, resourceType) ==
    IF Truthy(url) /\ Truthy(extractPublicId(url))
    THEN <<<<extractPublicId(url).s, resourceType>>>> ELSE <<>>

\* C6: a DELETE /products/:id of an existing Product issues exactly one
\* blob-delete call for each of image_url and video_url that is non-empty
\* and has an identifier, tagged image for image_url and video for
\* video_url, and none when both are empty.
C6_OneDestroyPerMedia ==
    [][\A id \in ReqIds :
        DeletesFound(id) =>
            DestroyTags(calls') =
                DueFor(products[id.n].image_url, "image")
                \o DueFor(products[id.n].video_url, "video")]_vars

\* C6 witness: a deletion issued one call tagged image and one tagged video
C6_Witness ==
    /\ req.route = "DELETE /products/:id"
    /\ Len(Destroys(calls)) = 2
    /\ Destroys(calls)[1].resource_type = "image"
    /\ Destroys(calls)[2].resource_type = "video"

\* the text has an upload segment that is followed by a further segment
HasPathAfterUpload(s) ==
    \E i \in 1..(Len(Split(s)) - 1) : Split(s)[i] = UPLOAD

\* everything after the first upload/, without a leading v<digits>/ and
\* without the trailing .<extension>
AfterUploadStripped(s) ==
    LET first == CHOOSE i \in 1..Len(Split(s)) :
                    Split(s)[i] = UPLOAD /\ \A j \in 1..(i - 1) : Split(s)[j] # UPLOAD
    IN  StripExtension(StripVersion(Join(SubSeq(Split(s), first + 1, Len(Split(s))))))

\* C7: given a URL with the segment upload, the extractor used by product
\* deletion returns everything after upload/ with a leading v<digits>/
\* version prefix and the trailing .<extension> removed; the versioned and
\* the plain unit case both give folder/file.
C7_ExtractStripsVersion ==
    (probe.done /\ probe.in.t = "string" /\ HasPathAfterUpload(probe.in.s))
        => /\ probe.out = Str(AfterUploadStripped(probe.in.s))
           /\ probe.in.s = URL_VERSIONED => probe.out = Str(FOLDER_FILE)
           /\ probe.in.s = URL_PLAIN => probe.out = Str(FOLDER_FILE)

\* no segment of the value is upload, or it is no text, or an empty one
NoUploadSegment(v) ==
    \/ TypeOf(v) # "string"
    \/ v.s = <<>>
    \/ \A i \in 1..Len(Split(v.s)) : Split(v.s)[i] # UPLOAD

\* the listed inputs of C8 as written: the last segment is upload
LastSegmentIsUpload(v) ==
    TypeOf(v) = "string" /\ v.s # <<>> /\ Split(v.s)[Len(Split(v.s))] = UPLOAD

\* the first segment that is upload is the last segment of the text
FirstUploadIsLast(v) ==
    /\ LastSegmentIsUpload(v)
    /\ \A i \in 1..(Len(Split(v.s)) - 1) : Split(v.s)[i] # UPLOAD

\* deletion of a Product takes a reference for which Nothing(v) holds as
\* nothing to clean up: no blob-delete call for it, and the record removal
\* is issued and decides the result
DeletionSkips(Nothing(_)) ==
    \A id \in ReqIds :
        DeletesFound(id) =>
            /\ Nothing(products[id.n].image_url) =>
                 \A i \in 1..Len(calls') :
                    ~(IsDestroy(calls'[i]) /\ calls'[i].resource_type = "image")
            /\ Nothing(products[id.n].video_url) =>
                 \A i \in 1..Len(calls') :
                    ~(IsDestroy(calls'[i]) /\ calls'[i].resource_type = "video")
            /\ LastCall(calls').op = "findByIdAndDelete"
            /\ LastCall(calls').result = "ok" =>
                 (id.n \notin DOMAIN products' /\ resp'.status = 200)

C8_ListedAsWritten(v) == NoUploadSegment(v) \/ LastSegmentIsUpload(v)
C8_ListedAmended(v) == NoUploadSegment(v) \/ FirstUploadIsLast(v)

\* C8 as written: the extractor never raises; for an input that is empty,
\* no text, without an upload segment, or whose last segment is upload it
\* returns null, and product deletion then cleans nothing up and removes
\* the record.
C8_NullForLastSegmentUpload ==
    [][/\ probe'.done =>
            /\ probe'.out # Raised
            /\ C8_ListedAsWritten(probe'.in) => probe'.out = Null
       /\ DeletionSkips(C8_ListedAsWritten)]_vars

\* C8 amended: the same, where "whose last segment is upload" reads "whose
\* first upload segment is its last segment" (upload/folder/upload has an
\* upload segment with a path after it, and the extractor returns the path).
C8_NullForMalformed ==
    [][/\ probe'.done =>
            /\ probe'.out # Raised
            /\ C8_ListedAmended(probe'.in) => probe'.out = Null
       /\ DeletionSkips(C8_ListedAmended)]_vars

\* C8 witness: the extractor answered null for no-upload-segment, and a
\* Product carrying that reference was deleted without a blob-delete call
C8_Witness ==
    /\ probe.done /\ probe.in = Str(NO_UPLOAD_SEGMENT) /\ probe.out = Null
    /\ req.route = "DELETE /products/:id" /\ resp.status = 200
    /\ calls = <<DbCall("findById", 1, "ok"),
                 DbCall("findByIdAndDelete", 1, "ok")>>

\* a required field of the body is absent, empty or zero
LacksRequired(body) ==
    \E v \in {body.product_name, body.price_new, body.brand, body.category} :
        v \in {Undefined, Null, Str(<<>>), Num(0)}

NegativeOrNonFinite(v) ==
    \/ v \in {NaN, PosInfinity, NegInfinity}
    \/ v.t = "number" /\ v.n < 0

\* C10: POST /products whose price_new, after numeric coercion, is negative
\* or non-finite is answered 400 for failed validation, and no Product is
\* added (the storage backend not failing).
C10_BadPriceRejected ==
    [][(/\ req'.route = "POST /products"
        /\ ~LacksRequired(req'.body)
        /\ NegativeOrNonFinite(parseFloat(req'.body.price_new))
        /\ \A i \in 1..Len(calls') : calls'[i].result # "error")
        => /\ resp'.status = 400
           /\ resp'.error = "Validation failed"
           /\ products' = products]_vars

\* the step is a PUT /products/:id that found the Product id
UpdatesFound(id) ==
    /\ req'.route = "PUT /products/:id"
    /\ req'.id = id
    /\ id.valid
    /\ id.n \in DOMAIN products
    /\ calls' # <<>>
    /\ calls'[1] = DbCall("findById", id.n, "ok")

\* no call of the step failed in the backend
NoBackendFailure == \A i \in 1..Len(calls') : calls'[i].result # "error"

\* the body breaks a field rule: a required field missing or empty, a
\* price_new that is negative or no number, an over-long text
ViolatesFieldRule(body) ==
    \/ \E v \in {body.product_name, body.price_new, body.brand,
                 body.category} : v \in {Undefined, Null, Str(<<>>)}
    \/ parseFloat(body.price_new) = NaN
    \/ parseFloat(body.price_new) = NegInfinity
    \/ parseFloat(body.price_new).t = "number" /\ parseFloat(body.price_new).n < 0
    \/ body.product_name.t = "string" /\ Len(body.product_name.s) > 200
    \/ body.brand.t = "string" /\ Len(body.brand.s) > 100
    \/ body.category.t = "string" /\ Len(body.category.s) > 100
    \/ body.description.t = "string" /\ Len(body.description.s) > 1000

\* C11: PUT /products/:id on an existing Product with a body that breaks a
\* field rule is answered 400 for failed validation, not 500, and the
\* stored record is unchanged (the storage backend not failing).
C11_UpdateRuleViolationIs400 ==
    [][\A id \in ReqIds :
        (UpdatesFound(id) /\ NoBackendFailure /\ ViolatesFieldRule(req'.body))
        => /\ resp'.status = 400
           /\ resp'.error = "Validation failed"
           /\ products' = products]_vars

\* the value a writable field holds once written: texts of the trimmed
\* paths without surrounding blanks, price_new as the number it denotes
Written(f, v) ==
    IF f \in {"product_name", "brand", "category"} THEN Trim(v)
    ELSE IF f = "price_new" THEN parseFloat(v)
    ELSE v

C13_IdAndCreatedAtFixed ==
    [][\A i \in DOMAIN products \cap DOMAIN products' :
        /\ products'[i]._id = products[i]._id
        /\ products'[i]._id = i
        /\ products'[i].created_at = products[i].created_at
        /\ IF /\ req'.route = "PUT /products/:id"
              /\ req'.id.n = i
              /\ resp'.status = 200
           THEN /\ products'[i].updated_at > products[i].updated_at
                /\ products'[i].updated_at = now
           ELSE products'[i].updated_at = products[i].updated_at]_vars

\* C13 witness: a Product was updated: its updated_at is past its
\* created_at, and a failed update followed
C13_Witness ==
    /\ req.route = "PUT /products/:id" /\ resp.status = 400
    /\ req.id.n \in DOMAIN products
    /\ products[req.id.n].updated_at > products[req.id.n].created_at

\* the body has valid fields: the required texts non-empty, within their
\* lengths and without surrounding blanks, the price a finite number above
\* zero, the optional fields texts within their lengths or absent
ValidFields(body) ==
    /\ \A f \in {"product_name", "brand", "category"} :
        /\ body[f].t = "string" /\ body[f].s # <<>>
        /\ Trim(body[f]) = body[f]
    /\ Len(body.product_name.s) <= 200
    /\ Len(body.brand.s) <= 100
    /\ Len(body.category.s) <= 100
    /\ body.price_new.t = "number" /\ body.price_new.n > 0
    /\ \A f \in {"description", "image_url", "video_url"} :
        body[f].t \in {"string", "undefined"}
    /\ Len(body.description.s) <= 1000

\* a field of the body as a Product holds it: an absent optional field is
\* the empty text
Submitted(body, f) == IF body[f] = Undefined THEN Str(<<>>) ELSE body[f]

\* C14: round trip: POST /products with valid fields, then GET /products/
\* <returned productId> with nothing in between, returns the submitted
\* product_name, price_new, brand, category, description, image_url and
\* video_url, with created_at equal to updated_at.
C14_CreateThenGetRoundTrip ==
    [][(/\ req.route = "POST /products" /\ resp.status = 201
        /\ ValidFields(req.body)
        /\ req'.route = "GET /products/:id"
        /\ req'.id = ObjectId(resp.productId)
        /\ NoBackendFailure)
        => /\ resp'.status = 200 /\ resp'.success
           /\ Len(resp'.data) = 1
           /\ \A f \in {"product_name", "price_new", "brand", "category",
                        "description", "image_url", "video_url"} :
                resp'.data[1][f] = Submitted(req.body, f)
           /\ resp'.data[1]._id = resp.productId
           /\ resp'.data[1].created_at = resp'.data[1].updated_at]_vars

\* C14 witness: a Product created with a description was fetched, and the
\* answer carries the description
C14_Witness ==
    /\ req.route = "GET /products/:id" /\ resp.status = 200
    /\ Len(resp.data) = 1
    /\ resp.data[1].description = Str(DESCRIPTION)
    /\ resp.data[1].created_at = resp.data[1].updated_at

\* C15: every stored Product has non-empty product_name, brand and category
\* within 200, 100 and 100 characters, a description of at most 1000
\* characters, and a finite numeric price_new of at least 0.
C15_StoredFieldsValid ==
    \A i \in DOMAIN products :
        /\ \A f \in {"product_name", "brand", "category"} :
            products[i][f].t = "string" /\ products[i][f].s # <<>>
        /\ Len(products[i].product_name.s) <= 200
        /\ Len(products[i].brand.s) <= 100
        /\ Len(products[i].category.s) <= 100
        /\ products[i].description.t = "string"
        /\ Len(products[i].description.s) <= 1000
        /\ products[i].price_new.t = "number"
        /\ products[i].price_new.n >= 0

(***************************************************************************)
(* The server: startup, the connection flag, the health check, the 404     *)
(* handler and the global error handler (server.js, db.js).                *)
(***************************************************************************)
\* NODE_ENV
Environments == {"development", "production"}

\* startServer: connectToDatabase, then listen; a failed connect is thrown
\* on and the process exits
StartServer ==
    /\ serverState = "starting"
    /\ \E connectOk \in BOOLEAN :
        IF connectOk
        THEN /\ readyState' = 1
             /\ isConnected' = (readyState' = 1)
             /\ serverState' = "listening"
        ELSE /\ readyState' = readyState
             /\ isConnected' = isConnected
             /\ serverState' = "exited"
    /\ UNCHANGED <<products, blobs, nextId, uploads, now, req, resp, calls,
                   probe, procs, replaced>>

\* mongoose.connection.on('error'): an error of the connection, which
\* need not end it
OnError ==
    /\ serverState = "listening"
    /\ isConnected' = FALSE
    /\ UNCHANGED <<products, blobs, nextId, uploads, now, req, resp, calls,
                   probe, serverState, procs, readyState, replaced>>

\* mongoose.connection.on('disconnected'): the connection is lost
OnDisconnected ==
    /\ serverState = "listening"
    /\ readyState = 1
    /\ readyState' = 0
    /\ isConnected' = FALSE
    /\ UNCHANGED <<products, blobs, nextId, uploads, now, req, resp, calls,
                   probe, serverState, procs, replaced>>

\* mongoose.connection.on('connected'): the driver has connected again;
\* the handler logs and leaves the flag alone
OnConnected ==
    /\ serverState = "listening"
    /\ readyState = 0
    /\ readyState' = 1
    /\ UNCHANGED <<products, blobs, nextId, uploads, now, req, resp, calls,
                   probe, isConnected, serverState, procs, replaced>>

\* getConnectionStatus
getConnectionStatus == isConnected

\* GET /api/health: the body has status, message, database and no success
Health ==
    /\ serverState = "listening"
    /\ req' = Req("GET /health", NoId, NoBody)
    /\ resp' = [Resp(200, FALSE, "") EXCEPT
                    !.keys = {"status", "message", "database"},
                    !.database = IF getConnectionStatus
                                 THEN "MongoDB Atlas - Connected"
                                 ELSE "MongoDB Atlas - Disconnected"]
    /\ calls' = <<>>
    /\ UNCHANGED <<products, blobs, nextId, uploads, now, probe,
                   isConnected, serverState, procs, readyState, replaced>>

\* the 404 handler for a route that no router serves
RouteNotFound ==
    /\ serverState = "listening"
    /\ req' = Req("GET /unknown", NoId, NoBody)
    /\ resp' = [Resp(404, FALSE, "") EXCEPT !.keys = {"success", "message"}]
    /\ calls' = <<>>
    /\ UNCHANGED <<products, blobs, nextId, uploads, now, probe,
                   isConnected, serverState, procs, readyState, replaced>>

\* the global error handler, reached by an error raised before the
\* routers (a body that express.json cannot parse): error is
\* `NODE_ENV === 'development' ? error.message : undefined`
GlobalError ==
    /\ serverState = "listening"
    /\ \E env \in Environments :
        /\ req' = Req("POST /products (malformed JSON)", NoId, NoBody)
        /\ resp' = [Resp(500, FALSE, "") EXCEPT
                        !.keys = IF env = "development"
                                 THEN {"success", "message", "error"}
                                 ELSE {"success", "message"}]
    /\ calls' = <<>>
    /\ UNCHANGED <<products, blobs, nextId, uploads, now, probe,
                   isConnected, serverState, procs, readyState, replaced>>

ServerInit ==
    /\ products = <<>>
    /\ blobs = {}
    /\ nextId = 0
    /\ uploads = 0
    /\ now = 0
    /\ req = Req("", NoId, NoBody)
    /\ resp = Resp(0, FALSE, "")
    /\ calls = <<>>
    /\ probe = NoProbe
    /\ isConnected = FALSE
    /\ serverState = "starting"
    /\ procs = <<>>
    /\ readyState = 0
    /\ replaced = {}

\* the requests the product router serves, once the server listens
Routed ==
    /\ serverState = "listening"
    /\ FieldNext

ServerNext ==
    \/ StartServer \/ OnError \/ OnDisconnected \/ OnConnected
    \/ Health \/ RouteNotFound \/ GlobalError
    \/ Routed

ServerSpec == ServerInit /\ [][ServerNext]_vars

\* C16: every response carries a success boolean, and every failure
\* response has success = false, an error string and no data field.
C16_FailureShape ==
    resp.status # 0 =>
        /\ "success" \in resp.keys
        /\ resp.status >= 400 =>
            /\ ~resp.success
            /\ "error" \in resp.keys
            /\ "data" \notin resp.keys

\* C17: POST /upload with a file whose declared media type is not allowed
\* (application/pdf) is answered 400, not 500, and nothing is written to
\* the blob store.
C17_RejectedUploadIs400 ==
    [][(/\ req'.route = "POST /upload"
        /\ req'.file.present
        /\ req'.file.mimetype = <<"application", "pdf">>)
        => /\ resp'.status = 400
           /\ blobs' = blobs
           /\ uploads' = uploads]_vars

\* C18: the database-connected flag is written once, at startup by
\* connectToDatabase, and never changes afterwards.
C18_FlagWrittenOnceAtStartup ==
    [][isConnected' # isConnected =>
        (serverState = "starting" /\ serverState' = "listening")]_vars

(***************************************************************************)
(* DELETE and PUT /products/:id handled await by await: a handler runs     *)
(* from one await to the next in one step, and the steps of the requests   *)
(* in flight interleave.                                                   *)
(***************************************************************************)
Procs == 1..MaxProcs

Idle ==
    [op |-> "", id |-> NoId, body |-> NoBody, pc |-> "idle",
     existingProduct |-> <<>>, resp |-> Resp(0, FALSE, ""), calls |-> <<>>]

\* the request is answered
Done(proc, response, cs) ==
    [proc EXCEPT !.pc = "done", !.resp = response, !.calls = cs]

\* the handler waits at its next await
Await(proc, pc, cs) == [proc EXCEPT !.pc = pc, !.calls = cs]

\* a Product with an image and a video, both uploaded: the state after
\* the uploads of a png and an mp4 and the POST /products that names them
MediaBody ==
    [BaseBody EXCEPT
        !.image_url = Str(NewBlob(1, "image", Format(<<"image", "png">>)).url),
        !.video_url = Str(NewBlob(2, "video", Format(<<"video", "mp4">>)).url)]

RaceInit ==
    /\ blobs = {NewBlob(1, "image", Format(<<"image", "png">>)),
                NewBlob(2, "video", Format(<<"video", "mp4">>))}
    /\ uploads = 2
    /\ products = [i \in {1} |->
                     Stamped(productSchema(productData(MediaBody)), 1, 0, 0)]
    /\ nextId = 1
    /\ now = 1
    /\ req = Req("POST /products", NoId, MediaBody)
    /\ resp = [WithData(Resp(201, TRUE, ""), <<products[1]>>) EXCEPT
                   !.productId = 1]
    /\ calls = <<DbCall("save", 1, "ok")>>
    /\ probe = NoProbe
    /\ isConnected = TRUE
    /\ serverState = "listening"
    /\ procs = [p \in Procs |-> Idle]
    /\ readyState = 1
    /\ replaced = {}

\* the await a DELETE reaches after the image block
AfterImage(existingProduct) ==
    IF Truthy(CleanupId(existingProduct.video_url))
    THEN "destroyVideo" ELSE "findByIdAndDelete"

\* the await a DELETE reaches once the Product is found
AfterFound(existingProduct) ==
    IF Truthy(CleanupId(existingProduct.image_url))
    THEN "destroyImage" ELSE AfterImage(existingProduct)

\* a request arrives: the handler runs to its first await
Begin(p, op, id, body) ==
    /\ procs[p].pc = "idle"
    /\ \E proc \in {[Idle EXCEPT !.op = op, !.id = id, !.body = body]} :
        procs' = [procs EXCEPT ![p] =
                    IF ~isValid(id) THEN Done(proc, InvalidIdentifier, <<>>)
                    ELSE Await(proc, "findById", <<>>)]
    /\ UNCHANGED <<products, blobs, now>>

\* await Product.findById(productId)
AwaitFindById(p, findOk) ==
    /\ procs[p].pc = "findById"
    /\ \E proc \in {procs[p]} :
        procs' = [procs EXCEPT ![p] =
            IF ~findOk
            THEN Done(proc, Resp(500, FALSE,
                                 IF proc.op = "DELETE"
                                 THEN "Failed to delete product"
                                 ELSE "Failed to update product"),
                      <<DbCall("findById", proc.id.n, "error")>>)
            ELSE IF proc.id.n \notin DOMAIN products
            THEN Done(proc, NotFound, <<DbCall("findById", proc.id.n, "null")>>)
            ELSE [Await(proc,
                        IF proc.op = "DELETE"
                        THEN AfterFound(products[proc.id.n])
                        ELSE "findByIdAndUpdate",
                        <<DbCall("findById", proc.id.n, "ok")>>)
                  EXCEPT !.existingProduct = <<products[proc.id.n]>>]]
    /\ UNCHANGED <<products, blobs, now>>

\* await cloudinary.v2.uploader.destroy(imagePublicId), caught and logged
AwaitDestroyImage(p, outcome) ==
    /\ procs[p].pc = "destroyImage"
    /\ \E proc \in {procs[p]} :
       \E image \in {Cleanup(blobs, CleanupId(proc.existingProduct[1].image_url),
                             "image", outcome)} :
        /\ blobs' = image.blobs
        /\ procs' = [procs EXCEPT ![p] =
                        Await(proc, AfterImage(proc.existingProduct[1]),
                              proc.calls \o image.calls)]
    /\ UNCHANGED <<products, now>>

\* await cloudinary.v2.uploader.destroy(videoPublicId, { resource_type })
AwaitDestroyVideo(p, outcome) ==
    /\ procs[p].pc = "destroyVideo"
    /\ \E proc \in {procs[p]} :
       \E video \in {Cleanup(blobs, CleanupId(proc.existingProduct[1].video_url),
                             "video", outcome)} :
        /\ blobs' = video.blobs
        /\ procs' = [procs EXCEPT ![p] =
                        Await(proc, "findByIdAndDelete",
                              proc.calls \o video.calls)]
    /\ UNCHANGED <<products, now>>

\* await Product.findByIdAndDelete(productId): what it returns is not looked
\* at, so a record that is gone by now is answered 200 as well
AwaitFindByIdAndDelete(p, deleteOk) ==
    /\ procs[p].pc = "findByIdAndDelete"
    /\ \E proc \in {procs[p]} :
        IF ~deleteOk
        THEN /\ products' = products
             /\ procs' = [procs EXCEPT ![p] =
                    Done(proc, Resp(500, FALSE, "Failed to delete product"),
                         Append(proc.calls,
                                DbCall("findByIdAndDelete", proc.id.n, "error")))]
        ELSE /\ products' = [i \in DOMAIN products \ {proc.id.n} |->
                                products[i]]
             /\ procs' = [procs EXCEPT ![p] =
                    Done(proc, Resp(200, TRUE, ""),
                         Append(proc.calls,
                                DbCall("findByIdAndDelete", proc.id.n,
                                       IF proc.id.n \in DOMAIN products
                                       THEN "ok" ELSE "null")))]
    /\ UNCHANGED <<blobs, now>>

\* the answer when findByIdAndUpdate returns null: 200 with data: null
UpdatedNull(proc) == [Resp(200, TRUE, "") EXCEPT !.keys = @ \cup {"data"}]

\* await Product.findByIdAndUpdate(productId, updateData, { new: true,
\* runValidators: true }): a record that is gone by now gives null, which
\* is sent as data
AwaitFindByIdAndUpdate(p, updateOk) ==
    /\ procs[p].pc = "findByIdAndUpdate"
    /\ \E proc \in {procs[p]} :
       \E updateData \in {productSchema(productData(proc.body))} :
       \E failed \in {Resp(500, FALSE, "Failed to update product")} :
        IF UpdateCastFails(updateData)
        THEN /\ updateOk
             /\ UNCHANGED <<products, now>>
             /\ procs' = [procs EXCEPT ![p] =
                    Done(proc, failed,
                         Append(proc.calls, DbCall("findByIdAndUpdate",
                                                   proc.id.n, "CastError")))]
        ELSE IF UpdateErrors(updateData) # {}
        THEN /\ updateOk
             /\ UNCHANGED <<products, now>>
             /\ procs' = [procs EXCEPT ![p] =
                    Done(proc, Resp(400, FALSE, "Validation failed"),
                         Append(proc.calls, DbCall("findByIdAndUpdate",
                                                   proc.id.n, "ValidationError")))]
        ELSE IF ~updateOk
        THEN /\ UNCHANGED <<products, now>>
             /\ procs' = [procs EXCEPT ![p] =
                    Done(proc, failed,
                         Append(proc.calls, DbCall("findByIdAndUpdate",
                                                   proc.id.n, "error")))]
        ELSE IF proc.id.n \notin DOMAIN products
        THEN /\ UNCHANGED <<products, now>>
             /\ procs' = [procs EXCEPT ![p] =
                    Done(proc, UpdatedNull(proc),
                         Append(proc.calls, DbCall("findByIdAndUpdate",
                                                   proc.id.n, "null")))]
        ELSE \E updatedProduct \in {Updated(products[proc.id.n], updateData, now)} :
             /\ products' = [products EXCEPT ![proc.id.n] = updatedProduct]
             /\ now' = now + 1
             /\ procs' = [procs EXCEPT ![p] =
                    Done(proc, WithData(Resp(200, TRUE, ""), <<updatedProduct>>),
                         Append(proc.calls, DbCall("findByIdAndUpdate",
                                                   proc.id.n, "ok")))]
    /\ UNCHANGED blobs

\* what the race steps leave alone
RaceFrame ==
    UNCHANGED <<nextId, uploads, req, resp, calls, probe, isConnected,
                serverState, readyState, replaced>>

\* the bodies of the PUT requests in flight: one that passes, one that
\* fails a validator, one whose price cannot be cast
RaceBodies ==
    {BaseBody, [BaseBody EXCEPT !.price_new = Num(-5)],
     [BaseBody EXCEPT !.price_new = Undefined]}

BeginDelete ==
    /\ \E p \in Procs, id \in ReqIds : Begin(p, "DELETE", id, NoBody)
    /\ RaceFrame

BeginUpdate ==
    /\ \E p \in Procs, id \in ReqIds, body \in RaceBodies :
            Begin(p, "PUT", id, body)
    /\ RaceFrame

FindById ==
    /\ \E p \in Procs, findOk \in BOOLEAN : AwaitFindById(p, findOk)
    /\ RaceFrame

DestroyImage ==
    /\ \E p \in Procs, outcome \in DestroyOutcomes :
            AwaitDestroyImage(p, outcome)
    /\ RaceFrame

DestroyVideo ==
    /\ \E p \in Procs, outcome \in DestroyOutcomes :
            AwaitDestroyVideo(p, outcome)
    /\ RaceFrame

FindByIdAndDelete ==
    /\ \E p \in Procs, deleteOk \in BOOLEAN :
            AwaitFindByIdAndDelete(p, deleteOk)
    /\ RaceFrame

FindByIdAndUpdate ==
    /\ \E p \in Procs, updateOk \in BOOLEAN :
            AwaitFindByIdAndUpdate(p, updateOk)
    /\ RaceFrame

RaceNext ==
    \/ BeginDelete
    \/ BeginUpdate
    \/ FindById
    \/ DestroyImage
    \/ DestroyVideo
    \/ FindByIdAndDelete
    \/ FindByIdAndUpdate

RaceSpec == RaceInit /\ [][RaceNext]_vars

(***************************************************************************)
(* Properties of the interleaved requests.                                 *)
(***************************************************************************)
\* p and q are two answered DELETE requests for the same valid id
DeletesSame(p, q) ==
    /\ p # q
    /\ procs[p].op = "DELETE" /\ procs[q].op = "DELETE"
    /\ procs[p].id = procs[q].id /\ procs[p].id.valid
    /\ procs[p].pc = "done" /\ procs[q].pc = "done"

\* the destroy calls of a request, as (public_id, resource_type) pairs
DestroyedBy(p) ==
    {<<procs[p].calls[i].public_id, procs[p].calls[i].resource_type>> :
        i \in {j \in 1..Len(procs[p].calls) : IsDestroy(procs[p].calls[j])}}

BothAnswer200(p, q) ==
    procs[p].resp.status = 200 /\ procs[q].resp.status = 200

\* C19: of two interleaved DELETE /products/:id for the same id at most one
\* responds 200, and no blob object receives a destroy call from both
C19_OneDeleteWins ==
    \A p, q \in Procs :
        DeletesSame(p, q) =>
            /\ ~BothAnswer200(p, q)
            /\ DestroyedBy(p) \cap DestroyedBy(q) = {}

\* p is a PUT request answered 200
UpdateAnswered(p) ==
    /\ procs[p].op = "PUT"
    /\ procs[p].pc = "done"
    /\ procs[p].resp.status = 200

\* C20: a PUT /products/:id that responds 200 has written the update to a
\* record that existed at the write and returns it as non-null data, also
\* when a DELETE of the same id ran between its findById and its write
C20_UpdateAnswersWrittenRecord ==
    \A p \in Procs :
        UpdateAnswered(p) =>
            /\ LastCall(procs[p].calls) =
                   DbCall("findByIdAndUpdate", procs[p].id.n, "ok")
            /\ procs[p].resp.data # <<>>

(***************************************************************************)
(* The two extractions of a public id from one URL.                        *)
(***************************************************************************)
\* the last request was a POST /upload that stored the file
Uploaded == req.route = "POST /upload" /\ resp.status = 200

\* C21: for every URL that POST /upload returns as filePath, extractPublicId
\* of the product routes gives the publicId that the upload response
\* reported for it
C21_ExtractMatchesUploadId ==
    Uploaded => extractPublicId(Str(resp.filePath)) = Str(resp.publicId)

(***************************************************************************)
(* Media references that an update leaves behind.  The variable replaced   *)
(* records them: it is no state of the program.                            *)
(***************************************************************************)
\* the media references the Products hold
Held(ps) ==
    {ps[i].image_url : i \in DOMAIN ps} \cup {ps[i].video_url : i \in DOMAIN ps}

\* two uploaded files, an image and a video, and no Product yet
MediaInit ==
    /\ blobs = {NewBlob(1, "image", Format(<<"image", "png">>)),
                NewBlob(2, "video", Format(<<"video", "mp4">>))}
    /\ uploads = 2
    /\ products = <<>>
    /\ nextId = 0
    /\ now = 0
    /\ req = [Req("POST /upload", NoId, NoBody) EXCEPT
                  !.file = [present |-> TRUE, mimetype |-> <<"video", "mp4">>,
                            tooLarge |-> FALSE]]
    /\ resp = [Resp(200, TRUE, "") EXCEPT
                   !.filePath = NewBlob(2, "video", Format(<<"video", "mp4">>)).url,
                   !.publicId = uploadPublicId(NewBlob(2, "video", Format(<<"video", "mp4">>)).url),
                   !.type = "video"]
    /\ calls = <<Call("upload", 0, NewBlob(2, "video", Format(<<"video", "mp4">>)).public_id, "auto", "ok")>>
    /\ probe = NoProbe
    /\ isConnected = TRUE
    /\ serverState = "listening"
    /\ procs = <<>>
    /\ readyState = 1
    /\ replaced = {}

\* POST /products: a reference that a Product holds again is no longer
\* left behind
CreateMedia ==
    /\ \E body \in MediaBodies(blobs), saveOk \in BOOLEAN :
            CreateProduct(body, saveOk)
    /\ replaced' = replaced \ Held(products')

\* PUT /products/:id: what the Products held before and hold no more is
\* left behind
UpdateMedia ==
    /\ \E id \in ReqIds, body \in MediaBodies(blobs), findOk \in BOOLEAN,
          updateOk \in BOOLEAN :
            UpdateProduct(id, body, findOk, updateOk)
    /\ replaced' = ((replaced \cup Held(products)) \ Held(products'))
                        \ {Str(<<>>)}

MediaNext == CreateMedia \/ UpdateMedia \/ Delete \/ Remove

MediaSpec == MediaInit /\ [][MediaNext]_vars

\* a call to the blob store
IsBlobCall(c) == c.op \in {"destroy", "upload"}

\* the object that a media reference names
Referenced(u) == {b \in blobs : Str(b.url) = u}

\* the step issues a destroy call for the id that deletion extracts from u
DestroysFor(u) ==
    \E i \in 1..Len(calls') :
        /\ IsDestroy(calls'[i])
        /\ Str(calls'[i].public_id) = CleanupId(u)

\* C22: PUT /products/:id issues no blob-store call and leaves the blob
\* store as it is; a later DELETE /products/:id issues no destroy call for
\* a reference that an update overwrote or cleared, and the object it
\* named stays
C22_UpdateLeavesMediaBehind ==
    [][/\ req'.route = "PUT /products/:id" =>
            /\ blobs' = blobs
            /\ \A i \in 1..Len(calls') : ~IsBlobCall(calls'[i])
       /\ req'.route = "DELETE /products/:id" =>
            \A u \in replaced :
                /\ ~DestroysFor(u)
                /\ Referenced(u) \subseteq blobs']_vars

\* a DELETE /products/:id has removed a Product after an update had
\* cleared a reference, and the object that reference named is there
C22_Witness ==
    /\ req.route = "DELETE /products/:id"
    /\ resp.status = 200
    /\ \E u \in replaced : Referenced(u) # {}

(***************************************************************************)
(* The connection flag against the connection.                             *)
(***************************************************************************)
\* C23: after a successful startup getConnectionStatus is true whenever
\* the connection is in the connected state, also after a disconnected or
\* error event followed by a reconnection
C23_StatusTracksConnection ==
    (serverState = "listening" /\ readyState = 1) => getConnectionStatus
====
